---- MODULE Spec2Model ----
(***************************************************************************)
(* A model of src/main.py: the three-stage static-site pipeline             *)
(* (front-matter parsing, generate_data, render_site) run by main().       *)
(*                                                                         *)
(* Paths are sequences of directory names relative to the root of the tree *)
(* they live in (source, JSON or output); a file name is the pair          *)
(* <<base, ext>>, so that os.path.splitext is the projection on base and   *)
(* str.endswith(('.md', '.markdown')) is a test on ext.  A text is a        *)
(* sequence of tokens: "---" is a delimiter line, "\n" is white space, any  *)
(* other token is opaque content.  The YAML parser and the Markdown        *)
(* converter are black boxes: the first is a table from a front-matter     *)
(* string to a mapping or an error, the second wraps its argument.         *)
(***************************************************************************)
EXTENDS Integers, Sequences, FiniteSets, TLC

VARIABLES
    srcDirs,                \* directories of the source tree (input)
    srcFiles,               \* files of the source tree: pairs <<dir, name>> (input)
    templateDirExists,      \* whether the template directory exists (input)
    jsonDirs,               \* directories of the working JSON tree
    jsonFiles,              \* JSON tree: <<dir, base>> -> Page Document
    outDirs,                \* directories of the output tree
    outFiles,               \* output tree: <<dir, base>> -> rendered page
    navigation_links_list,  \* the one list object main() creates and every call shares
    stack,                  \* call stack of generate_data / render_site frames
    pc,                     \* position of main()
    error,                  \* the exception that ended the process, if any
    written,                \* history: JSON paths written by generate_data in this run
    fragments,              \* a containers directory listing (input of the assembler)
    assembled               \* what generate_containers_markdown returned for it

vars == <<srcDirs, srcFiles, templateDirExists, jsonDirs, jsonFiles, outDirs, outFiles,
          navigation_links_list, stack, pc, error, written, fragments, assembled>>

(***************************************************************************)
(* Bounds of the model.                                                    *)
(***************************************************************************)
MaxDepth == 2      \* deepest subdirectory of the source tree
MaxFiles == 2      \* files present before the build starts
MaxFrags == 2      \* entries of a containers directory
MaxTag == 2        \* group tags, numbered in ascending lexical order

(***************************************************************************)
(* Generic helpers.                                                        *)
(***************************************************************************)
EmptyMap == [x \in {} |-> TRUE]

NoError == [raised |-> FALSE]

Front(s) == SubSeq(s, 1, Len(s) - 1)

\* Every order in which os.listdir may return the set S of entries.
Orders(S) ==
    {s \in [1..Cardinality(S) -> S] : \A i, j \in 1..Cardinality(S) : s[i] = s[j] => i = j}

\* The path and each of its ancestors: what os.makedirs creates.
WithParents(p) == {SubSeq(p, 1, k) : k \in 0..Len(p)}

MdExts == {"md", "markdown"}

\* filename.endswith(('.md', '.markdown'))
IsMarkdownName(name) == name[2] \in MdExts

\* os.path.splitext(filename)[0]
splitext(name) == name[1]

\* os.path.join(dir, filename) for a directory entry
join(dir, name) == Append(dir, name[1])

(***************************************************************************)
(* The files the model builds its source trees from.  A page's text is     *)
(* fixed by its name.                                                      *)
(***************************************************************************)
SubName == <<"sub", "">>

ChainDir(k) == [i \in 1..k |-> SubName[1]]

FileNames ==
    { <<"index", "md">>, <<"index", "markdown">>, <<"draft", "md">>, <<"gallery", "md">>,
      <<"notes", "txt">>, <<"broken", "md">>, <<"nolayout", "md">>, <<"nonav", "md">>,
      <<"untitled", "md">>, <<"unordered", "md">> }

FileText(name) ==
    CASE name = <<"index", "md">>       -> <<"---", "y_home", "---", "\n", "Home text", "\n">>
      [] name = <<"index", "markdown">> -> <<"---", "y_alt", "---", "Alt text">>
      [] name = <<"draft", "md">>       -> <<"---", "y_draft", "---", "\n", "Draft text">>
      [] name = <<"gallery", "md">>     -> <<"---", "y_gallery", "---">>
      [] name = <<"broken", "md">>      -> <<"---", "y_bad", "---", "\n", "Broken text", "\n">>
      [] name = <<"nolayout", "md">>    -> <<"---", "y_nolayout", "---", "Plain text">>
      [] name = <<"nonav", "md">>       -> <<"---", "y_nonav", "---", "NoNav text">>
      [] name = <<"untitled", "md">>    -> <<"---", "y_untitled", "---", "Untitled text">>
      [] name = <<"unordered", "md">>   -> <<"---", "y_unordered", "---", "Unordered text">>
      [] OTHER                          -> <<"plain notes">>

\* yaml.safe_load as a table: a mapping, or ok = FALSE for yaml.YAMLError.
YamlLoad(src) ==
    CASE src = <<>> -> [ok |-> TRUE, map |-> EmptyMap]
      [] src = <<"y_home">> ->
            [ok |-> TRUE, map |-> [title |-> "Home", navmenu |-> TRUE, navorder |-> 2,
                                   layout |-> "page", description |-> "d"]]
      [] src = <<"y_alt">> ->
            [ok |-> TRUE, map |-> [title |-> "Home", navmenu |-> TRUE, navorder |-> 1,
                                   layout |-> "post", description |-> "d"]]
      [] src = <<"y_draft">> ->
            [ok |-> TRUE, map |-> [title |-> "Draft", navmenu |-> FALSE, layout |-> "page"]]
      [] src = <<"y_gallery">> ->
            [ok |-> TRUE, map |-> [title |-> "Gallery", navmenu |-> TRUE, navorder |-> 1,
                                   layout |-> "containers",
                                   containerspath |-> "../containers"]]
      [] src = <<"y_nolayout">> ->
            [ok |-> TRUE, map |-> [title |-> "Plain", navmenu |-> TRUE, navorder |-> 3]]
      [] src = <<"y_nonav">> ->
            [ok |-> TRUE, map |-> [title |-> "NoNav", layout |-> "page"]]
      [] src = <<"y_untitled">> ->
            [ok |-> TRUE, map |-> [navmenu |-> FALSE, layout |-> "page"]]
      [] src = <<"y_unordered">> ->
            [ok |-> TRUE, map |-> [title |-> "Unordered", navmenu |-> TRUE,
                                   layout |-> "page"]]
      [] OTHER -> [ok |-> FALSE]

\* The templates of the template directory: layout -> placeholders of <layout>.html.
Templates ==
    [page       |-> {"title", "page_markdown", "navigation_links", "ref_prefix",
                     "description"},
     containers |-> {"title", "navigation_links", "containers_markdown", "ref_prefix"}]

\* A Page Document left in the working directory by an earlier build.
StaleDoc == [title |-> "Old", navigation_links |-> <<>>, description |-> "d"]

StaleJson == <<<<>>, "old">>

(***************************************************************************)
(* parse_front_matter                                                      *)
(***************************************************************************)
IsSpace(tok) == tok = "\n"

RECURSIVE lstrip(_)
lstrip(s) == IF s # <<>> /\ IsSpace(Head(s)) THEN lstrip(Tail(s)) ELSE s

RECURSIVE rstrip(_)
rstrip(s) == IF s # <<>> /\ IsSpace(s[Len(s)]) THEN rstrip(Front(s)) ELSE s

\* str.strip()
strip(s) == rstrip(lstrip(s))

\* Index of the first closing delimiter line after the opening one, 0 if none:
\* the lazy (.*?) of front_matter_pattern stops at the first one.
ClosingLine(text) ==
    IF \E j \in 2..Len(text) : text[j] = "---"
    THEN CHOOSE j \in 2..Len(text) :
            text[j] = "---" /\ \A k \in 2..(j - 1) : text[k] # "---"
    ELSE 0

parse_front_matter(markdown_text) ==
    LET matched == Len(markdown_text) >= 1 /\ markdown_text[1] = "---"
                   /\ ClosingLine(markdown_text) > 0
        j       == ClosingLine(markdown_text)
        loaded  == YamlLoad(SubSeq(markdown_text, 2, j - 1))
    IN  IF matched /\ loaded.ok
        THEN [metadata |-> loaded.map,
              content  |-> strip(SubSeq(markdown_text, j + 1, Len(markdown_text)))]
        ELSE [metadata |-> EmptyMap, content |-> markdown_text]

\* markdown.markdown(text): an opaque conversion.
markdown(text) == <<"html">> \o text

(***************************************************************************)
(* Directory listings.                                                     *)
(***************************************************************************)
Entry(name, isdir) == [name |-> name, isdir |-> isdir]

\* os.listdir(input_dir) with os.path.isdir of each entry.
ListSource(dir) ==
    {Entry(f[2], FALSE) : f \in {g \in srcFiles : g[1] = dir}}
    \cup {Entry(SubName, TRUE) : d \in {e \in srcDirs : e = join(dir, SubName)}}

\* os.listdir(json_dir) with os.path.isdir of each entry.
ListJson(dir) ==
    {Entry(<<k[2], "json">>, FALSE) : k \in {g \in DOMAIN jsonFiles : g[1] = dir}}
    \cup {Entry(<<d[Len(d)], "">>, TRUE) :
            d \in {e \in jsonDirs : Len(e) = Len(dir) + 1 /\ Front(e) = dir}}

(***************************************************************************)
(* generate_navigation_links                                               *)
(***************************************************************************)
KeyError(key, where, file) ==
    [raised |-> TRUE, type |-> "KeyError", key |-> key, where |-> where, file |-> file]

OtherError(type, where, file) ==
    [raised |-> TRUE, type |-> type, key |-> "", where |-> where, file |-> file]

\* The dictionary appended at lines 73-77.  origin is a history field: the
\* directory of the page the entry was built from.
NavEntry(input_dir, name, metadata) ==
    [html_file  |-> <<splitext(name), "html">>,
     page_name  |-> metadata["title"],
     page_order |-> metadata["navorder"],
     origin     |-> input_dir]

\* The first fault of one iteration of the loop at lines 58-77, if any.
NavFault(input_dir, e) ==
    LET metadata == parse_front_matter(FileText(e.name)).metadata
        file     == <<input_dir, e.name>>
        where    == "generate_navigation_links"
    IN  IF e.isdir THEN OtherError("IsADirectoryError", where, file)
        ELSE IF "title" \notin DOMAIN metadata THEN KeyError("title", where, file)
        ELSE IF "navmenu" \notin DOMAIN metadata THEN KeyError("navmenu", where, file)
        ELSE IF metadata["navmenu"] = TRUE /\ "navorder" \notin DOMAIN metadata
             THEN KeyError("navorder", where, file)
        ELSE NoError

\* metadata['navmenu'] == True
NavIncluded(metadata) == metadata["navmenu"] = TRUE

\* list.sort(key=page_order) is stable: insert after the entries that are not larger.
RECURSIVE InsertByOrder(_, _)
InsertByOrder(x, s) ==
    IF s = <<>> THEN <<x>>
    ELSE IF s[Len(s)].page_order <= x.page_order THEN Append(s, x)
    ELSE Append(InsertByOrder(x, Front(s)), s[Len(s)])

RECURSIVE SortByOrder(_)
SortByOrder(s) ==
    IF s = <<>> THEN <<>> ELSE InsertByOrder(s[Len(s)], SortByOrder(Front(s)))

\* The loop of lines 58-77 over the listing, from the list it was handed.
RECURSIVE NavScan(_, _, _)
NavScan(input_dir, listing, list) ==
    IF listing = <<>> THEN [err |-> NoError, list |-> list]
    ELSE LET e == Head(listing)
         IN  IF ~IsMarkdownName(e.name) THEN NavScan(input_dir, Tail(listing), list)
             ELSE IF NavFault(input_dir, e).raised
                  THEN [err |-> NavFault(input_dir, e), list |-> list]
             ELSE LET metadata == parse_front_matter(FileText(e.name)).metadata
                  IN  NavScan(input_dir, Tail(listing),
                              IF NavIncluded(metadata)
                              THEN Append(list, NavEntry(input_dir, e.name, metadata))
                              ELSE list)

\* The caller's list object is appended to in place, sorted in place and returned.
generate_navigation_links(input_dir, listing, navigation_links_list_arg) ==
    LET scanned == NavScan(input_dir, listing, navigation_links_list_arg)
    IN  IF scanned.err.raised THEN scanned
        ELSE [err |-> NoError, list |-> SortByOrder(scanned.list)]

(***************************************************************************)
(* generate_containers_markdown                                            *)
(***************************************************************************)
ContainerKeys ==
    <<"containergroups", "containerimage", "containeralttext", "containerlink",
      "containertitle">>

\* The first of the keys read at lines 106-110 that the fragment lacks, "" if none.
RECURSIVE FirstMissing(_, _)
FirstMissing(keys, metadata) ==
    IF keys = <<>> THEN ""
    ELSE IF Head(keys) \notin DOMAIN metadata THEN Head(keys)
    ELSE FirstMissing(Tail(keys), metadata)

InSeq(x, s) == \E i \in 1..Len(s) : s[i] = x

\* Lines 112-114 without the membership test of line 113.
AddGroupsUnchecked(filter_groups, container_groups) == filter_groups \o container_groups

\* Lines 112-114: append each group that filter_groups does not hold yet.
RECURSIVE AddGroups(_, _)
AddGroups(filter_groups, container_groups) ==
    IF container_groups = <<>> THEN filter_groups
    ELSE AddGroups(IF InSeq(Head(container_groups), filter_groups)
                   THEN filter_groups
                   ELSE Append(filter_groups, Head(container_groups)),
                   Tail(container_groups))

\* filter_groups.sort(): tags are numbered in ascending lexical order.
RECURSIVE InsertTag(_, _)
InsertTag(x, s) ==
    IF s = <<>> THEN <<x>>
    ELSE IF s[Len(s)] <= x THEN Append(s, x)
    ELSE Append(InsertTag(x, Front(s)), s[Len(s)])

RECURSIVE SortTags(_)
SortTags(s) == IF s = <<>> THEN <<>> ELSE InsertTag(s[Len(s)], SortTags(Front(s)))

\* The "All" button of line 92; filter 0 stands for data-filter="all".
AllButton == [active |-> TRUE, filter |-> 0]

\* A button of line 121.
FilterButton(filter_group) == [active |-> FALSE, filter |-> filter_group]

\* The item block of line 117.
ItemBlock(metadata) ==
    [groups  |-> metadata["containergroups"],
     link    |-> metadata["containerlink"],
     image   |-> metadata["containerimage"],
     alttext |-> metadata["containeralttext"],
     title   |-> metadata["containertitle"]]

\* The loop of lines 95-117.  An entry of a containers listing carries the
\* metadata parse_front_matter returns for its text.
RECURSIVE ContainersScan(_, _, _)
ContainersScan(listing, filter_groups, containers) ==
    IF listing = <<>>
    THEN [err |-> NoError, filter_groups |-> filter_groups, containers |-> containers]
    ELSE LET e == Head(listing)
         IN  IF ~IsMarkdownName(e.name)
             THEN ContainersScan(Tail(listing), filter_groups, containers)
             ELSE IF FirstMissing(ContainerKeys, e.metadata) # ""
                  THEN [err |-> KeyError(FirstMissing(ContainerKeys, e.metadata),
                                         "generate_containers_markdown", e.name),
                        filter_groups |-> filter_groups, containers |-> containers]
             ELSE ContainersScan(Tail(listing),
                                 AddGroups(filter_groups, e.metadata["containergroups"]),
                                 Append(containers, ItemBlock(e.metadata)))

\* The buttons after the "All" button, lines 119-121.
GroupButtons(filter_groups) ==
    LET sorted == SortTags(filter_groups)
    IN  [i \in 1..Len(sorted) |-> FilterButton(sorted[i])]

\* dir is [exists, listing].  value.none stands for Python's None.
generate_containers_markdown(dir) ==
    IF ~dir.exists THEN [err |-> NoError, value |-> [none |-> TRUE]]
    ELSE LET scanned == ContainersScan(dir.listing, <<>>, <<>>)
         IN  IF scanned.err.raised THEN [err |-> scanned.err, value |-> [none |-> TRUE]]
             ELSE [err   |-> NoError,
                   value |-> [none           |-> FALSE,
                              filter_buttons |-> <<AllButton>>
                                                 \o GroupButtons(scanned.filter_groups),
                              containers     |-> scanned.containers]]

FullFragment(groups, title) ==
    [containergroups |-> groups, containerimage |-> "img", containeralttext |-> "alt",
     containerlink |-> "link", containertitle |-> title]

\* The containers directory beside the pages directory, used by gallery pages.
SiteContainers ==
    [exists  |-> TRUE,
     listing |-> << [name |-> <<1, "md">>, metadata |-> FullFragment(<<2, 1>>, 1)],
                    [name |-> <<2, "md">>, metadata |-> FullFragment(<<1>>, 2)] >>]

\* input_dir + '/' + containerspath: "../containers" leaves the source tree from its
\* root only; below the root it names a directory no source tree of the model has.
ContainersDir(input_dir, containerspath) ==
    IF input_dir = <<>> /\ containerspath = "../containers"
    THEN fragments
    ELSE [exists |-> FALSE, listing |-> <<>>]

(***************************************************************************)
(* generate_data                                                           *)
(***************************************************************************)
\* Line 151 (and 213) handing the caller's prefix down unchanged.
ChildPrefixUnchanged(ref_prefix) == ref_prefix

\* ref_prefix + '../'
ChildPrefix(ref_prefix) == Append(ref_prefix, "../")

\* Line 174 comparing the entry's file name, not its page_name, with the title.
AnchorByFile(navigation_link, ref_prefix, page_data) ==
    [href      |-> [prefix |-> ref_prefix, file |-> navigation_link.html_file],
     active    |-> navigation_link.html_file[1] = page_data["title"],
     page_name |-> navigation_link.page_name,
     origin    |-> navigation_link.origin]

\* The anchor of line 175; origin is the history field of the entry.
Anchor(navigation_link, ref_prefix, page_data) ==
    [href      |-> [prefix |-> ref_prefix, file |-> navigation_link.html_file],
     active    |-> navigation_link.page_name = page_data["title"],
     page_name |-> navigation_link.page_name,
     origin    |-> navigation_link.origin]

\* Lines 157-181 for one Markdown file: the Page Document, or the exception.
PageData(input_dir, ref_prefix, name, list) ==
    LET parsed   == parse_front_matter(FileText(name))
        file     == <<input_dir, name>>
        where    == "generate_data"
        page_md  == ("page_markdown" :> markdown(parsed.content)) @@ parsed.metadata
        with_nav == ("navigation_links" :>
                        [k \in 1..Len(list) |-> Anchor(list[k], ref_prefix, page_md)])
                    @@ page_md
    IN  IF list # <<>> /\ "title" \notin DOMAIN page_md
        THEN [err |-> KeyError("title", where, file)]
        ELSE IF "layout" \notin DOMAIN page_md
        THEN [err |-> KeyError("layout", where, file)]
        ELSE IF page_md["layout"] # "containers"
        THEN [err |-> NoError, page_data |-> with_nav]
        ELSE IF "containerspath" \notin DOMAIN page_md
        THEN [err |-> KeyError("containerspath", where, file)]
        ELSE LET made == generate_containers_markdown(
                            ContainersDir(input_dir, page_md["containerspath"]))
             IN  IF made.err.raised THEN [err |-> made.err]
                 ELSE [err       |-> NoError,
                       page_data |-> ("containers_markdown" :> made.value) @@ with_nav]

\* os.path.join(json_dir, base_filename + '.json')
JsonPath(json_dir, name) == <<json_dir, splitext(name)>>

GenFrame(input_dir, json_dir, listing, ref_prefix) ==
    [input_dir |-> input_dir, json_dir |-> json_dir, listing |-> listing, i |-> 1,
     ref_prefix |-> ref_prefix]

Top == stack[Len(stack)]

Current == Top.listing[Top.i]

HasCurrent == stack # <<>> /\ Top.i <= Len(Top.listing)

\* The loop of the top frame moves to its next entry.
Advance(stk) == [stk EXCEPT ![Len(stk)].i = @ + 1]

\* A call of generate_data up to its loop (lines 134-142).  returned is the stack
\* the caller goes on with if the call returns at once, at the position after.
GenCall(input_dir, json_dir, ref_prefix, returned, after) ==
    IF input_dir \notin srcDirs
    THEN /\ stack' = returned
         /\ pc' = after
         /\ UNCHANGED <<jsonDirs, navigation_links_list, error>>
    ELSE \E listing \in Orders(ListSource(input_dir)) :
            LET nav == generate_navigation_links(input_dir, listing, navigation_links_list)
            IN  /\ jsonDirs' = jsonDirs \cup WithParents(json_dir)
                /\ navigation_links_list' = nav.list
                /\ IF nav.err.raised
                   THEN /\ pc' = "crashed"
                        /\ error' = nav.err
                        /\ UNCHANGED stack
                   ELSE /\ stack' = Append(stack,
                                           GenFrame(input_dir, json_dir, listing, ref_prefix))
                        /\ pc' = after
                        /\ UNCHANGED error

\* main(), line 271: generate_data(input_directory, json_directory, [], './')
MainGenerate ==
    /\ pc = "main"
    /\ GenCall(<<>>, <<>>, <<"./">>, <<>>, "generate_data")
    /\ UNCHANGED <<srcDirs, srcFiles, templateDirExists, jsonFiles, outDirs, outFiles,
                   written, fragments, assembled>>

\* Lines 145-152: the entry is a subdirectory.
GenSubdir ==
    /\ pc = "generate_data"
    /\ HasCurrent
    /\ Current.isdir
    /\ GenCall(join(Top.input_dir, Current.name), join(Top.json_dir, Current.name),
               ChildPrefix(Top.ref_prefix), stack, "generate_data")
    /\ UNCHANGED <<srcDirs, srcFiles, templateDirExists, jsonFiles, outDirs, outFiles,
                   written, fragments, assembled>>

\* Lines 154-155: an entry that is no Markdown file is passed over.
GenOther ==
    /\ pc = "generate_data"
    /\ HasCurrent
    /\ ~Current.isdir
    /\ ~IsMarkdownName(Current.name)
    /\ stack' = Advance(stack)
    /\ UNCHANGED <<srcDirs, srcFiles, templateDirExists, jsonDirs, jsonFiles, outDirs,
                   outFiles, navigation_links_list, pc, error, written, fragments,
                   assembled>>

\* Lines 157-185: a Markdown file gets its Page Document.
GenPage ==
    /\ pc = "generate_data"
    /\ HasCurrent
    /\ ~Current.isdir
    /\ IsMarkdownName(Current.name)
    /\ LET made == PageData(Top.input_dir, Top.ref_prefix, Current.name,
                            navigation_links_list)
       IN  /\ ~made.err.raised
           /\ jsonFiles' = (JsonPath(Top.json_dir, Current.name) :> made.page_data)
                           @@ jsonFiles
           /\ written' = written \cup {JsonPath(Top.json_dir, Current.name)}
    /\ stack' = Advance(stack)
    /\ UNCHANGED <<srcDirs, srcFiles, templateDirExists, jsonDirs, outDirs, outFiles,
                   navigation_links_list, pc, error, fragments, assembled>>

\* Lines 157-181 raise: the exception leaves generate_data and main().
GenPageError ==
    /\ pc = "generate_data"
    /\ HasCurrent
    /\ ~Current.isdir
    /\ IsMarkdownName(Current.name)
    /\ LET made == PageData(Top.input_dir, Top.ref_prefix, Current.name,
                            navigation_links_list)
       IN  /\ made.err.raised
           /\ error' = made.err
    /\ pc' = "crashed"
    /\ UNCHANGED <<srcDirs, srcFiles, templateDirExists, jsonDirs, jsonFiles, outDirs,
                   outFiles, navigation_links_list, stack, written, fragments, assembled>>

\* The loop of a nested call ends: the caller is back at line 154 with the
\* subdirectory's name, which is no Markdown name, and moves on.
GenReturn ==
    /\ pc = "generate_data"
    /\ Len(stack) > 1
    /\ ~HasCurrent
    /\ stack' = Advance(Front(stack))
    /\ UNCHANGED <<srcDirs, srcFiles, templateDirExists, jsonDirs, jsonFiles, outDirs,
                   outFiles, navigation_links_list, pc, error, written, fragments,
                   assembled>>

(***************************************************************************)
(* render_site                                                             *)
(***************************************************************************)
RenderFrame(json_dir, output_dir, listing, ref_prefix) ==
    [json_dir |-> json_dir, output_dir |-> output_dir, listing |-> listing, i |-> 1,
     ref_prefix |-> ref_prefix]

\* page_data.get('layout', 'page')
LayoutOf(page_data) == IF "layout" \in DOMAIN page_data THEN page_data["layout"] ELSE "page"

\* open(template_path) succeeds
TemplateFound(template_name) == template_name \in DOMAIN Templates

\* Lines 236-240: the defaults and ref_prefix.
WithDefaults(page_data, ref_prefix) ==
    ("ref_prefix" :> ref_prefix)
    @@ page_data
    @@ ("title" :> "Untitled")
    @@ ("page_markdown" :> <<>>)

\* template.substitute(page_data) raises KeyError
SubstituteFails(template_name, page_data) ==
    Templates[template_name] \ DOMAIN page_data # {}

\* Whether lines 226-246 skip the page instead of writing it.
RenderFault(page_data, ref_prefix) ==
    IF ~TemplateFound(LayoutOf(page_data)) THEN TRUE
    ELSE SubstituteFails(LayoutOf(page_data), WithDefaults(page_data, ref_prefix))

\* final_html: the template with each placeholder replaced by its field.
FinalHtml(page_data, ref_prefix) ==
    LET filled == WithDefaults(page_data, ref_prefix)
    IN  [template |-> LayoutOf(page_data),
         values   |-> [k \in Templates[LayoutOf(page_data)] |-> filled[k]]]

\* os.path.join(output_dir, base_filename + '.html')
HtmlPath(output_dir, name) == <<output_dir, splitext(name)>>

\* Lines 234 and 246 leaving the loop of the directory instead of continuing it.
AfterFaultLeave(stk) == [stk EXCEPT ![Len(stk)].i = Len(stk[Len(stk)].listing) + 1]

\* What the loop does after a page it could not render: continue.
AfterFault(stk) == Advance(stk)

\* A call of render_site up to its loop (lines 194-205), pushed on the caller's
\* stack base; returned is the stack the caller goes on with if it returns at once.
RenderCall(json_dir, output_dir, ref_prefix, base, returned) ==
    IF ~templateDirExists \/ json_dir \notin jsonDirs
    THEN /\ stack' = returned
         /\ UNCHANGED outDirs
    ELSE \E listing \in Orders(ListJson(json_dir)) :
            /\ outDirs' = outDirs \cup WithParents(output_dir)
            /\ stack' = Append(base,
                               RenderFrame(json_dir, output_dir, listing, ref_prefix))

\* main(), line 272, once generate_data has returned.
MainRender ==
    /\ pc = "generate_data"
    /\ Len(stack) <= 1
    /\ ~HasCurrent
    /\ pc' = "render_site"
    /\ RenderCall(<<>>, <<>>, <<"./">>, <<>>, <<>>)
    /\ UNCHANGED <<srcDirs, srcFiles, templateDirExists, jsonDirs, jsonFiles, outFiles,
                   navigation_links_list, error, written, fragments, assembled>>

\* Lines 207-214: the entry is a subdirectory.
RenderSubdir ==
    /\ pc = "render_site"
    /\ HasCurrent
    /\ Current.isdir
    /\ RenderCall(join(Top.json_dir, Current.name), join(Top.output_dir, Current.name),
                  ChildPrefix(Top.ref_prefix), stack, Advance(stack))
    /\ UNCHANGED <<srcDirs, srcFiles, templateDirExists, jsonDirs, jsonFiles, outFiles,
                   navigation_links_list, pc, error, written, fragments, assembled>>

\* Lines 219-250: the Page Document is rendered and written.
RenderPage ==
    /\ pc = "render_site"
    /\ HasCurrent
    /\ ~Current.isdir
    /\ LET page_data == jsonFiles[JsonPath(Top.json_dir, Current.name)]
       IN  /\ ~RenderFault(page_data, Top.ref_prefix)
           /\ outFiles' = (HtmlPath(Top.output_dir, Current.name)
                              :> FinalHtml(page_data, Top.ref_prefix))
                          @@ outFiles
    /\ stack' = Advance(stack)
    /\ UNCHANGED <<srcDirs, srcFiles, templateDirExists, jsonDirs, jsonFiles, outDirs,
                   navigation_links_list, pc, error, written, fragments, assembled>>

\* Lines 232-234 and 244-246: the template is missing or a placeholder has no
\* field; a warning is printed and the loop continues.
RenderSkip ==
    /\ pc = "render_site"
    /\ HasCurrent
    /\ ~Current.isdir
    /\ RenderFault(jsonFiles[JsonPath(Top.json_dir, Current.name)], Top.ref_prefix)
    /\ stack' = AfterFault(stack)
    /\ UNCHANGED <<srcDirs, srcFiles, templateDirExists, jsonDirs, jsonFiles, outDirs,
                   outFiles, navigation_links_list, pc, error, written, fragments,
                   assembled>>

\* The loop of a nested call ends: the caller is back at line 216 with the
\* subdirectory's name, which does not end in .json, and moves on.
RenderReturn ==
    /\ pc = "render_site"
    /\ Len(stack) > 1
    /\ ~HasCurrent
    /\ stack' = Advance(Front(stack))
    /\ UNCHANGED <<srcDirs, srcFiles, templateDirExists, jsonDirs, jsonFiles, outDirs,
                   outFiles, navigation_links_list, pc, error, written, fragments,
                   assembled>>

\* render_site has returned to main(); copying the static assets is not modelled.
MainDone ==
    /\ pc = "render_site"
    /\ Len(stack) <= 1
    /\ ~HasCurrent
    /\ pc' = "done"
    /\ stack' = <<>>
    /\ UNCHANGED <<srcDirs, srcFiles, templateDirExists, jsonDirs, jsonFiles, outDirs,
                   outFiles, navigation_links_list, error, written, fragments, assembled>>

(***************************************************************************)
(* The builds the model runs.                                              *)
(***************************************************************************)
RECURSIVE SubsetsUpTo(_, _)
SubsetsUpTo(S, n) ==
    IF n = 0 THEN {{}}
    ELSE LET smaller == SubsetsUpTo(S, n - 1)
         IN  smaller \cup {p \cup {x} : p \in smaller, x \in S}

\* The source trees: no pages directory at all, or a chain of subdirectories.
SourceTrees == {{}} \cup {{ChainDir(k) : k \in 0..n} : n \in 0..MaxDepth}

Init ==
    /\ srcDirs \in SourceTrees
    /\ \E stale \in SUBSET {StaleJson} :
          /\ srcFiles \in SubsetsUpTo(srcDirs \X FileNames, MaxFiles - Cardinality(stale))
          /\ jsonFiles = [k \in stale |-> StaleDoc]
          /\ jsonDirs = IF stale = {} THEN {} ELSE {<<>>}
    /\ templateDirExists \in BOOLEAN
    /\ outDirs = {}
    /\ outFiles = EmptyMap
    /\ navigation_links_list = <<>>
    /\ stack = <<>>
    /\ pc = "main"
    /\ error = NoError
    /\ written = {}
    /\ fragments = SiteContainers
    /\ assembled = [called |-> FALSE]

Next ==
    \/ MainGenerate
    \/ GenSubdir
    \/ GenOther
    \/ GenPage
    \/ GenPageError
    \/ GenReturn
    \/ MainRender
    \/ RenderSubdir
    \/ RenderPage
    \/ RenderSkip
    \/ RenderReturn
    \/ MainDone

Spec == Init /\ [][Next]_vars

(***************************************************************************)
(* generate_containers_markdown on its own, over every small containers    *)
(* directory.                                                              *)
(***************************************************************************)
Tags == 1..MaxTag

GroupLists == {<<>>} \cup {<<a>> : a \in Tags} \cup {<<a, b>> : a, b \in Tags}

\* The i-th entry of a listing: a fragment with all its keys, a Markdown file
\* whose front matter gives no key, or a file that is no Markdown file.
FragmentEntries(i) ==
    {[name |-> <<i, ext>>, metadata |-> FullFragment(g, i)] : ext \in MdExts, g \in GroupLists}
    \cup {[name |-> <<i, "md">>, metadata |-> EmptyMap],
          [name |-> <<i, "txt">>, metadata |-> EmptyMap]}

RECURSIVE Listings(_)
Listings(n) ==
    IF n = 0 THEN {<<>>}
    ELSE {Append(l, e) : l \in Listings(n - 1), e \in FragmentEntries(n)}

ContainersDirs ==
    {[exists |-> FALSE, listing |-> <<>>]}
    \cup {[exists |-> TRUE, listing |-> l] : l \in UNION {Listings(n) : n \in 0..MaxFrags}}

InitContainers ==
    /\ fragments \in ContainersDirs
    /\ assembled = [called |-> FALSE]
    /\ srcDirs = {}
    /\ srcFiles = {}
    /\ templateDirExists = TRUE
    /\ jsonDirs = {}
    /\ jsonFiles = EmptyMap
    /\ outDirs = {}
    /\ outFiles = EmptyMap
    /\ navigation_links_list = <<>>
    /\ stack = <<>>
    /\ pc = "containers"
    /\ error = NoError
    /\ written = {}

\* One call of generate_containers_markdown(containers_path).
Assemble ==
    /\ pc = "containers"
    /\ ~assembled.called
    /\ LET made == generate_containers_markdown(fragments)
       IN  /\ assembled' = [called |-> TRUE, value |-> made.value]
           /\ error' = made.err
    /\ UNCHANGED <<srcDirs, srcFiles, templateDirExists, jsonDirs, jsonFiles, outDirs,
                   outFiles, navigation_links_list, stack, pc, written, fragments>>

NextContainers == Assemble

SpecContainers == InitContainers /\ [][NextContainers]_vars

(***************************************************************************)
(* Vocabulary of the properties.                                           *)
(***************************************************************************)
MarkdownFiles == {f \in srcFiles : IsMarkdownName(f[2])}

MetadataOf(f) == parse_front_matter(FileText(f[2])).metadata

\* The source pages of directory d that ask for a navigation entry.
NavPagesOf(d) ==
    {f \in MarkdownFiles :
        /\ f[1] = d
        /\ "navmenu" \in DOMAIN MetadataOf(f)
        /\ MetadataOf(f)["navmenu"] = TRUE}

AnchorsOf(k) == jsonFiles[k]["navigation_links"]

ActiveAnchors(k) == {i \in 1..Len(AnchorsOf(k)) : AnchorsOf(k)[i].active}

\* The subdirectories of the source tree, at depth 1 and below.
Subdirectories == {d \in srcDirs : Len(d) >= 1}

\* generate_data has returned to main().
GenerateDone == pc \in {"render_site", "done"}

\* The relative-root prefix at depth D: './' followed by D times '../'.
PrefixAt(D) == <<"./">> \o [i \in 1..D |-> "../"]

\* A relative path of './' and '../' steps followed from directory dir; a step
\* above the root of the tree is kept as "..".
RECURSIVE Resolve(_, _)
Resolve(dir, prefix) ==
    IF prefix = <<>> THEN dir
    ELSE Resolve(IF Head(prefix) = "./" THEN dir
                 ELSE IF dir # <<>> /\ dir[Len(dir)] # ".." THEN Front(dir)
                 ELSE Append(dir, ".."),
                 Tail(prefix))

\* The text opens and closes a front-matter block that the YAML parser rejects.
Malformed(text) ==
    /\ Len(text) >= 1
    /\ text[1] = "---"
    /\ ClosingLine(text) > 0
    /\ ~YamlLoad(SubSeq(text, 2, ClosingLine(text) - 1)).ok

(***************************************************************************)
(* C1.  Navigation is directory-scoped: the navigation_links of every Page *)
(* Document written for a page of directory d hold one anchor for exactly  *)
(* the direct-child Markdown files of d with navmenu true, and no anchor   *)
(* built from a page of another directory.                                 *)
(***************************************************************************)
C1_NavigationDirectoryScoped ==
    \A k \in written :
        /\ \A i \in 1..Len(AnchorsOf(k)) : AnchorsOf(k)[i].origin = k[1]
        /\ Len(AnchorsOf(k)) = Cardinality(NavPagesOf(k[1]))
        /\ \A f \in NavPagesOf(k[1]) :
              \E i \in 1..Len(AnchorsOf(k)) :
                 /\ AnchorsOf(k)[i].href.file = <<splitext(f[2]), "html">>
                 /\ AnchorsOf(k)[i].page_name = MetadataOf(f)["title"]

(***************************************************************************)
(* C2 as stated.  Every Page Document written by generate_data has exactly *)
(* one active anchor, the one whose page_name equals the page's title.     *)
(***************************************************************************)
C2_ExactlyOneActive ==
    \A k \in written :
        /\ Cardinality(ActiveAnchors(k)) = 1
        /\ \A i \in ActiveAnchors(k) : AnchorsOf(k)[i].page_name = jsonFiles[k]["title"]

(***************************************************************************)
(* C2 as amended.  In every Page Document written by generate_data the     *)
(* anchors carrying the active marker are exactly the anchors whose        *)
(* page_name equals the page's title, and there is at least one of them    *)
(* when the page's own navmenu is true.                                    *)
(***************************************************************************)
C2_ActiveIffTitle ==
    \A k \in written :
        /\ \A i \in 1..Len(AnchorsOf(k)) :
              AnchorsOf(k)[i].active <=> (AnchorsOf(k)[i].page_name = jsonFiles[k]["title"])
        /\ jsonFiles[k]["navmenu"] = TRUE => ActiveAnchors(k) # {}

\* A page of the menu written with two anchors of different titles, one active.
C2_Witness ==
    \E k \in written :
        /\ jsonFiles[k]["navmenu"] = TRUE
        /\ Len(AnchorsOf(k)) = 2
        /\ Cardinality(ActiveAnchors(k)) = 1

(***************************************************************************)
(* C3.  Once generate_data has returned, on a working directory that held  *)
(* no Page Document before, every source Markdown file has its own JSON    *)
(* file at the mirrored path, no two source files share one, and every     *)
(* JSON file has a source Markdown file.                                   *)
(***************************************************************************)
C3_OneDocumentPerSource ==
    (GenerateDone /\ StaleJson \notin DOMAIN jsonFiles) =>
        /\ \A f \in MarkdownFiles : JsonPath(f[1], f[2]) \in DOMAIN jsonFiles
        /\ \A f, g \in MarkdownFiles :
              f # g => JsonPath(f[1], f[2]) # JsonPath(g[1], g[2])
        /\ \A k \in DOMAIN jsonFiles :
              \E f \in MarkdownFiles : JsonPath(f[1], f[2]) = k

(***************************************************************************)
(* C4.  A page whose leading --- block fails to parse does not fail the    *)
(* build: parse_front_matter gives it empty metadata and its whole text as *)
(* the body, no exception is raised while it is processed, and it has its  *)
(* Page Document once generate_data has returned.                          *)
(***************************************************************************)
C4_MalformedDoesNotFailBuild ==
    \A f \in MarkdownFiles :
        Malformed(FileText(f[2])) =>
            /\ parse_front_matter(FileText(f[2])).metadata = EmptyMap
            /\ parse_front_matter(FileText(f[2])).content = FileText(f[2])
            /\ ~(error.raised /\ error.file = f)
            /\ GenerateDone => JsonPath(f[1], f[2]) \in DOMAIN jsonFiles

(***************************************************************************)
(* C5.  generate_navigation_links takes a direct-child Markdown file into  *)
(* the list exactly when its navmenu is present and true, and raises only  *)
(* for a missing title or navorder of a file whose navmenu is true: a file *)
(* with navmenu false or absent is passed over without error.              *)
(***************************************************************************)
C5_NavmenuDecidesInclusion ==
    /\ \A i \in 1..Len(navigation_links_list) :
          \E f \in NavPagesOf(navigation_links_list[i].origin) :
             navigation_links_list[i].html_file = <<splitext(f[2]), "html">>
    /\ (error.raised /\ error.where = "generate_navigation_links") =>
          /\ error.key \in {"title", "navorder"}
          /\ error.file \in NavPagesOf(error.file[1])

(***************************************************************************)
(* C6.  Rendering faults are isolated per page: when render_site has       *)
(* returned, a Page Document whose template is missing or whose template   *)
(* names a placeholder it has no field for has no HTML file, and every     *)
(* other Page Document of the JSON tree has its HTML file at the mirrored  *)
(* path, rendered from its own layout.                                     *)
(***************************************************************************)
C6_TemplateMissing(k) ==
    \/ ~templateDirExists
    \/ LayoutOf(jsonFiles[k]) \notin DOMAIN Templates

C6_PlaceholderMissing(k) ==
    /\ ~C6_TemplateMissing(k)
    /\ \E ph \in Templates[LayoutOf(jsonFiles[k])] :
          ph \notin DOMAIN jsonFiles[k] \cup {"title", "page_markdown", "ref_prefix"}

C6_RenderFaultsIsolated ==
    pc = "done" =>
        \A k \in DOMAIN jsonFiles :
            IF C6_TemplateMissing(k) \/ C6_PlaceholderMissing(k)
            THEN k \notin DOMAIN outFiles
            ELSE /\ k \in DOMAIN outFiles
                 /\ outFiles[k].template = LayoutOf(jsonFiles[k])

\* In one directory a page that could not be rendered is listed first and the
\* page listed after it has been rendered.
C6_Witness ==
    /\ pc = "render_site"
    /\ stack # <<>>
    /\ Len(Top.listing) >= 2
    /\ Top.i > 2
    /\ ~Top.listing[1].isdir
    /\ ~Top.listing[2].isdir
    /\ Len(Top.json_dir) >= 1
    /\ HtmlPath(Top.output_dir, Top.listing[1].name) \notin DOMAIN outFiles
    /\ HtmlPath(Top.output_dir, Top.listing[2].name) \in DOMAIN outFiles

(***************************************************************************)
(* C7 as stated.  After generate_data and render_site every directory of   *)
(* the source tree has a directory at the same relative path in the JSON   *)
(* tree and in the output tree, and the ref_prefix used at depth D is './' *)
(* followed by exactly D times '../'.                                      *)
(***************************************************************************)
C7_PrefixesMatchDepth ==
    /\ \A n \in 1..Len(stack) :
          /\ stack[n].ref_prefix = PrefixAt(Len(stack[n].json_dir))
          /\ pc = "generate_data" => stack[n].json_dir = stack[n].input_dir
          /\ pc = "render_site" => stack[n].output_dir = stack[n].json_dir
    /\ \A k \in written :
          \A i \in 1..Len(AnchorsOf(k)) : AnchorsOf(k)[i].href.prefix = PrefixAt(Len(k[1]))
    /\ \A k \in DOMAIN outFiles : outFiles[k].values["ref_prefix"] = PrefixAt(Len(k[1]))

C7_TreesMirrored ==
    /\ C7_PrefixesMatchDepth
    /\ pc = "done" => \A d \in Subdirectories : d \in jsonDirs /\ d \in outDirs

(***************************************************************************)
(* C7 as amended.  After generate_data every directory of the source tree  *)
(* has a directory at the same relative path in the JSON tree; after       *)
(* render_site it has one in the output tree too, provided the template    *)
(* directory exists; and the ref_prefix used at depth D, in both stages,   *)
(* is './' followed by exactly D times '../'.                              *)
(***************************************************************************)
C7_TreesMirroredGivenTemplates ==
    /\ C7_PrefixesMatchDepth
    /\ GenerateDone => \A d \in Subdirectories : d \in jsonDirs
    /\ (pc = "done" /\ templateDirExists) => \A d \in Subdirectories : d \in outDirs

\* The build has ended with a page rendered two directories below the root.
C7_Witness ==
    /\ pc = "done"
    /\ \E k \in DOMAIN outFiles : Len(k[1]) >= 2 /\ k[1] \in srcDirs

(***************************************************************************)
(* C8.  The layout defaults to "page": a source page whose metadata lacks  *)
(* only the layout key raises no exception and has its Page Document,      *)
(* without a containers block, once generate_data has returned; and        *)
(* render_site renders a Page Document without layout from page.html.      *)
(***************************************************************************)
C8_LayoutDefaultsToPage ==
    /\ \A f \in MarkdownFiles :
          ("layout" \notin DOMAIN MetadataOf(f) /\ f \in NavPagesOf(f[1])
              /\ {"title", "navorder"} \subseteq DOMAIN MetadataOf(f)) =>
             /\ ~(error.raised /\ error.file = f)
             /\ GenerateDone =>
                   /\ JsonPath(f[1], f[2]) \in DOMAIN jsonFiles
                   /\ "containers_markdown" \notin DOMAIN jsonFiles[JsonPath(f[1], f[2])]
    /\ \A k \in DOMAIN outFiles :
          "layout" \notin DOMAIN jsonFiles[k] => outFiles[k].template = "page"

(***************************************************************************)
(* C9.  For a containers directory whose fragments carry their keys,       *)
(* generate_containers_markdown emits the "All" button first, then one     *)
(* button per distinct group tag of any fragment in ascending order, and   *)
(* one item block per Markdown fragment file, in listing order.            *)
(***************************************************************************)
C9_MarkdownEntries == SelectSeq(fragments.listing, LAMBDA e : IsMarkdownName(e.name))

C9_TagsSeen ==
    UNION {{C9_MarkdownEntries[i].metadata["containergroups"][j] :
               j \in 1..Len(C9_MarkdownEntries[i].metadata["containergroups"])} :
           i \in 1..Len(C9_MarkdownEntries)}

C9_ButtonsAndItems ==
    (pc = "containers" /\ assembled.called /\ ~assembled.value.none) =>
        LET buttons == assembled.value.filter_buttons
            items   == assembled.value.containers
        IN  /\ buttons[1] = [active |-> TRUE, filter |-> 0]
            /\ Len(buttons) = 1 + Cardinality(C9_TagsSeen)
            /\ \A i \in 2..Len(buttons) :
                  /\ ~buttons[i].active
                  /\ buttons[i].filter \in C9_TagsSeen
                  /\ buttons[i - 1].filter < buttons[i].filter
            /\ Len(items) = Len(C9_MarkdownEntries)
            /\ \A i \in 1..Len(items) :
                  /\ items[i].title = C9_MarkdownEntries[i].metadata["containertitle"]
                  /\ items[i].groups = C9_MarkdownEntries[i].metadata["containergroups"]

\* Two fragments that share a tag, the first naming its tags in descending order.
C9_Witness ==
    /\ pc = "containers"
    /\ assembled.called
    /\ ~assembled.value.none
    /\ Len(assembled.value.containers) = 2
    /\ Len(assembled.value.filter_buttons) = 3
    /\ fragments.listing[1].metadata["containergroups"] = <<2, 1>>
    /\ fragments.listing[2].metadata["containergroups"] = <<1>>

(***************************************************************************)
(* C10.  Navigation links are correct relative links: in every Page        *)
(* Document written for a page of a directory, each anchor's href,         *)
(* followed from that directory, leads to the directory of the page the    *)
(* navigation entry was built from (the file name is that page's).         *)
(***************************************************************************)
C10_LinksResolveToTheirPage ==
    \A k \in written :
        \A i \in 1..Len(AnchorsOf(k)) :
            Resolve(k[1], AnchorsOf(k)[i].href.prefix) = AnchorsOf(k)[i].origin

====
